---- MODULE Spec2Model ----
(***************************************************************************)
(* Messages store of the community hub client (hooks/messages-store, kept   *)
(* in src/hooks/posts-store.ts from line 246 on) together with the parts of *)
(* database/service.ts it calls: the offline spool, the message dispatcher  *)
(* (sendMessage), the drain (syncOfflineMessages) and the synchronizer      *)
(* (loadMessages, subscribeToConversation), and the conversation list of the *)
(* messages screen (subscribeToConversations, the profile effect of          *)
(* app/(tabs)/messages.tsx).                                                 *)
(***************************************************************************)
EXTENDS Integers, Sequences, FiniteSets, TLC

\* ------------------------------------------------------------------ bounds
MaxSends  == 2      \* sendMessage calls in one behaviour
MaxDrains == 1      \* syncOfflineMessages calls in one behaviour (DrainAgain apart)
MaxLoads  == 1      \* loadMessages calls in one behaviour
MaxClock  == 2      \* Date.now() / serverTimestamp() of this run range over 1..MaxClock
MaxDocs   == 3      \* auto-generated document ids of the messages collection
MaxPasses == 2      \* runs of the profile effect's async block in one behaviour
MaxJoins  == 2      \* createJoinRequest calls in one behaviour
MaxEvents == 3      \* auth-state events in one behaviour

Conv    == {"c1", "c2"}
SendIds == 1..MaxSends
DrainIds == 1..MaxDrains
LoadIds == 1..MaxLoads
DocIds  == 1..MaxDocs
PassIds == 1..MaxPasses
JoinIds == 1..MaxJoins
EventIds == 1..MaxEvents

VARIABLES
    messagesByConversation, \* useState<Record<string, Message[]>>: the keys present map to lists
    isOfflineMode,          \* useState(false)
    spool,                  \* AsyncStorage record 'offlineMessagesSpool' (Absent, or the entries in key order)
    remoteMessages,         \* documents of the remote 'messages' collection
    lastMessage,            \* lastMessage field of each remote 'conversations' document
    subscribed,             \* conversations with a live onSnapshot listener
    now,                    \* wall clock in milliseconds
    startup,                \* the startup effect that loads the spool
    sends,                  \* the sendMessage calls, by call number
    drains,                 \* the syncOfflineMessages calls, by call number
    loads,                  \* the loadMessages calls, by call number
    unsynced,               \* offline sendMessage calls since which no drain was started
    error,                  \* useState<string | null>(null) of the messages store
    updatedAt,              \* updatedAt field of each remote 'conversations' document
    inflight,               \* the listener event of each conversation that is on its way to the client
    tornDown,               \* conversations whose teardown function was invoked last
    discarded,              \* torn-down conversations an event of which reached the client since
    conversations,          \* useState<Conversation[]>([]) of the messages store
    effectDue,              \* the profile effect of the messages screen has a run pending
    dmProfiles,             \* useState<Record<string, { name, avatar }>>({}) of the messages screen
    passes,                 \* the runs of the profile effect's async block, by run number
    joinRequests,           \* documents of the remote 'joinRequests' collection of one community and user
    joinCalls,              \* the createJoinRequest calls, by call number
    user,                   \* useState<User | null>(null) of the auth store
    userRecord,             \* AsyncStorage record 'user'
    authEvents,             \* the auth-state events delivered so far, oldest first
    handlers                \* the runs of the onAuthStateChanged callback, by event number

listenerVars == <<inflight, tornDown, discarded>>
screenVars   == <<conversations, effectDue, dmProfiles, passes>>
communityVars == <<joinRequests, joinCalls>>
authVars     == <<user, userRecord, authEvents, handlers>>

vars == <<messagesByConversation, isOfflineMode, spool, remoteMessages, lastMessage,
          subscribed, now, startup, sends, drains, loads, unsynced,
          error, updatedAt, listenerVars, screenVars, communityVars, authVars>>

\* ------------------------------------------------------------------ values
Absent == [present |-> FALSE, entries |-> <<>>]   \* AsyncStorage.getItem(...) === null
Stored(sp) == [present |-> TRUE, entries |-> sp]  \* the record written by setItem
NoList == [has |-> FALSE, list |-> <<>>]          \* a conversation id that is no key of the map
NoId   == [kind |-> "none", n |-> 0]     \* a record that has no id key
NoLast == [id |-> NoId, ms |-> 0]        \* a conversation without lastMessage

NoError   == "null"                                        \* error === null
LoadError == "Failed to load messages"
AuthError == "Not authorized to view this conversation"

NoEvent == [kind |-> "none", msgs |-> <<>>]     \* nothing on its way to the listener
SnapshotEvent(msgs) == [kind |-> "snapshot", msgs |-> msgs]
ErrorEvent == [kind |-> "error", msgs |-> <<>>]

LocalId(t) == [kind |-> "local", n |-> t]      \* `local-${Date.now()}`
SrvId(d)   == [kind |-> "srv", n |-> d]        \* docRef.id / doc.id

Iso(t) == [kind |-> "iso", ms |-> t]     \* new Date().toISOString()
Ts(t)  == [kind |-> "ts", ms |-> t]      \* serverTimestamp() as read back
Missing   == [kind |-> "missing", ms |-> 0]   \* a document without createdAt
Pending   == [kind |-> "pending", ms |-> 0]   \* serverTimestamp() not yet set by the server: null
BadString == [kind |-> "bad", ms |-> 0]       \* a string that is no date

\* the `offline` of a call: options?.offline ?? isOfflineMode
EffectiveOffline(opt, mode) == IF opt = "none" THEN mode ELSE opt = "true"

\* the record `base` that sendMessage builds (it has no id key)
Base(nonce, cid, offline, t) ==
    [id          |-> NoId,
     nonce       |-> nonce,
     cid         |-> cid,
     createdAt   |-> Iso(t),
     isDelivered |-> ~offline,
     status      |-> IF offline THEN "sent" ELSE "delivered"]

\* a?.createdAt resolved to milliseconds by the sort comparators: toMillis() of a
\* server timestamp, Date.parse of a string, 0 for anything else.  Date.parse of a
\* string that is no date is NaN (see IsNaN); the 0 below is not used for it.
ResolveTime(m) ==
    IF m.createdAt.kind = "ts" THEN m.createdAt.ms
    ELSE IF m.createdAt.kind = "iso" THEN m.createdAt.ms
    ELSE 0

\* ta (or tb) is NaN: createdAt is a string that Date.parse does not understand
IsNaN(m) == m.createdAt.kind = "bad"

\* ta - tb as the sort reads it: a comparator result of NaN counts as +0
Compare(a, b) == IF IsNaN(a) \/ IsNaN(b) THEN 0 ELSE ResolveTime(a) - ResolveTime(b)

\* the comparator orders the messages of the set S consistently: with a NaN among
\* them it does so only if the other messages are all equal
ConsistentComparator(S) ==
    \/ \A m \in S : ~IsNaN(m)
    \/ \A a, b \in S : (~IsNaN(a) /\ ~IsNaN(b)) => ResolveTime(a) = ResolveTime(b)

\* [...msgs].sort((a, b) => ta - tb): a stable ascending sort (the order it gives
\* is defined for a consistent comparator only)
RECURSIVE InsertSorted(_, _)
InsertSorted(s, m) ==
    IF s = <<>> THEN <<m>>
    ELSE IF Compare(s[Len(s)], m) <= 0 THEN Append(s, m)
    ELSE Append(InsertSorted(SubSeq(s, 1, Len(s) - 1), m), s[Len(s)])

RECURSIVE SortByCreatedAt(_)
SortByCreatedAt(s) ==
    IF s = <<>> THEN <<>>
    ELSE InsertSorted(SortByCreatedAt(SubSeq(s, 1, Len(s) - 1)), s[Len(s)])

\* the orders a sort may leave s in when the comparator is not consistent
Orderings(s) ==
    {[i \in 1..Len(s) |-> s[f[i]]] :
        f \in {g \in [1..Len(s) -> 1..Len(s)] : \A i, j \in 1..Len(s) : g[i] = g[j] => i = j}}

\* Map.set(m.id, m): a known key keeps its place and takes the new value
RECURSIVE MapSet(_, _)
MapSet(s, m) ==
    IF s = <<>> THEN <<m>>
    ELSE IF s[1].id = m.id THEN <<m>> \o Tail(s)
    ELSE <<s[1]>> \o MapSet(Tail(s), m)

\* Array.from(new Map(list.map(m => [m.id, m])).values())
RECURSIVE DedupeById(_)
DedupeById(s) ==
    IF s = <<>> THEN <<>>
    ELSE MapSet(DedupeById(SubSeq(s, 1, Len(s) - 1)), s[Len(s)])

\* ------------------------------------------------------------------ remote store
\* DatabaseService.create: the data as sent, createdAt overwritten by the server
\* (the server's clock and the device's are taken to agree)
NewDoc(d, data) == [docId |-> d, data |-> [data EXCEPT !.createdAt = Ts(now)]]

\* { id: doc.id, ...doc.data() }: an id field of the data wins over doc.id
ReadDoc(doc) ==
    [doc.data EXCEPT !.id = IF doc.data.id = NoId THEN SrvId(doc.docId) ELSE doc.data.id]

FreeDocIds == DocIds \ {doc.docId : doc \in remoteMessages}

\* the documents of a where('conversationId', '==', c) query, in document-id order
RECURSIVE DocsInOrder(_)
DocsInOrder(S) ==
    IF S = {} THEN <<>>
    ELSE LET first == CHOOSE x \in S : \A y \in S : x.docId <= y.docId
         IN  <<ReadDoc(first)>> \o DocsInOrder(S \ {first})

QueryMessages(c) == DocsInOrder({doc \in remoteMessages : doc.data.cid = c})

\* the same documents as a set
MessagesOf(c) == {doc.data : doc \in {d \in remoteMessages : d.data.cid = c}}

\* MessageService.getMessages: query, then sort ascending by createdAt
GetMessages(c) == SortByCreatedAt(QueryMessages(c))

\* ------------------------------------------------------------------ local store
\* next[conversationId] ?? []
ListOf(byConv, c) == IF byConv[c].has THEN byConv[c].list ELSE <<>>

\* { ...prev, [conversationId]: list }
SetList(byConv, c, list) == [byConv EXCEPT ![c] = [has |-> TRUE, list |-> list]]

\* raw ? JSON.parse(raw) : {}
ParseSpool(raw) == IF raw.present THEN raw.entries ELSE <<>>

\* spool[conversationId] ?? []
SpoolList(sp, c) ==
    IF \E i \in 1..Len(sp) : sp[i].cid = c
    THEN sp[CHOOSE i \in 1..Len(sp) : sp[i].cid = c].msgs
    ELSE <<>>

\* spool[conversationId] = list: a known key keeps its place, a new key goes last
SpoolSet(sp, c, list) ==
    IF \E i \in 1..Len(sp) : sp[i].cid = c
    THEN [i \in 1..Len(sp) |-> IF sp[i].cid = c THEN [cid |-> c, msgs |-> list] ELSE sp[i]]
    ELSE Append(sp, [cid |-> c, msgs |-> list])

\* for (const [conversationId, msgs] of Object.entries(spool)) for (const m of msgs)
RECURSIVE SpoolEntries(_)
SpoolEntries(sp) ==
    IF sp = <<>> THEN <<>> ELSE sp[1].msgs \o SpoolEntries(Tail(sp))

\* { ...spool, ...prev } of the startup effect
MergeSpool(sp, prev) ==
    [k \in Conv |->
        IF prev[k].has THEN prev[k]
        ELSE IF \E i \in 1..Len(sp) : sp[i].cid = k
             THEN [has |-> TRUE, list |-> SpoolList(sp, k)]
             ELSE NoList]


\* ------------------------------------------------------------------ conversations, profiles
ConvInOrder == <<"c1", "c2">>     \* the conversation documents in document-id order

\* the conversations of the user as a query reads them: { id: doc.id, ...doc.data() }
QueryConversations ==
    [i \in 1..Len(ConvInOrder) |->
        [id |-> ConvInOrder[i], updatedAt |-> Ts(updatedAt[ConvInOrder[i]])]]

\* a?.updatedAt resolved to milliseconds
ResolveUpdatedAt(c) ==
    IF c.updatedAt.kind = "ts" THEN c.updatedAt.ms
    ELSE IF c.updatedAt.kind = "iso" THEN c.updatedAt.ms
    ELSE 0

\* [...data].sort((a, b) => tb - ta): a stable descending sort
RECURSIVE InsertSortedDesc(_, _)
InsertSortedDesc(s, c) ==
    IF s = <<>> THEN <<c>>
    ELSE IF ResolveUpdatedAt(c) - ResolveUpdatedAt(s[Len(s)]) <= 0 THEN Append(s, c)
    ELSE Append(InsertSortedDesc(SubSeq(s, 1, Len(s) - 1), c), s[Len(s)])

RECURSIVE SortByUpdatedAtDesc(_)
SortByUpdatedAtDesc(s) ==
    IF s = <<>> THEN <<>>
    ELSE InsertSortedDesc(SortByUpdatedAtDesc(SubSeq(s, 1, Len(s) - 1)), s[Len(s)])

DEFAULT_AVATAR == "DEFAULT_AVATAR"
NoProfile == [name |-> "", avatar |-> ""]        \* dmProfiles[c.id] === undefined

\* the users collection: the other participant of c1 has a name and an avatar, the
\* other participant of c2 has neither name nor username nor avatar
UserOf(c) ==
    IF c = "c1" THEN [name |-> "Ann", username |-> "ann", avatar |-> "ann.png"]
    ELSE [name |-> "", username |-> "", avatar |-> ""]

\* { name: u.name || u.username || 'Unknown', avatar: u.avatar }
ProfileOf(u) ==
    [name   |-> IF u.name # "" THEN u.name
                ELSE IF u.username # "" THEN u.username ELSE "Unknown",
     avatar |-> u.avatar]

\* !dmProfiles[c.id]
NotCached(profiles, c) == profiles[c] = NoProfile

\* dms.filter((c) => !dmProfiles[c.id]), as conversation ids
RECURSIVE ToFetch(_, _)
ToFetch(convos, profiles) ==
    IF convos = <<>> THEN <<>>
    ELSE IF NotCached(profiles, convos[1].id)
         THEN <<convos[1].id>> \o ToFetch(Tail(convos), profiles)
         ELSE ToFetch(Tail(convos), profiles)

NoUpdates == [c \in Conv |-> NoProfile]          \* const updates = {}

\* { ...prev, ...updates }
MergeProfiles(prev, updates) ==
    [c \in Conv |-> IF updates[c] # NoProfile THEN updates[c] ELSE prev[c]]

\* the entry of the useMemo `chats` for a direct conversation
ChatPreview(c, profiles) ==
    [id     |-> c,
     name   |-> IF profiles[c].name # "" THEN profiles[c].name ELSE "Direct Message",
     avatar |-> IF profiles[c].avatar # "" THEN profiles[c].avatar ELSE DEFAULT_AVATAR]

\* ------------------------------------------------------------------ initial state
IdleSend ==
    [pc |-> "idle", cid |-> "c1", offline |-> FALSE, t |-> 0, raw |-> Absent, docId |-> 0]
\* a call that has returned keeps nothing but how it ended
Ended(how) == [IdleSend EXCEPT !.pc = how]
IdleDrain == [pc |-> "idle", copy |-> <<>>, idx |-> 1]
IdleLoad  == [pc |-> "idle", cid |-> "c1", result |-> <<>>]
\* a run of the profile effect's async block; asked and failed record the
\* conversations it has called getUser for and those for which the call rejected
IdlePass  ==
    [pc |-> "idle", toFetch |-> <<>>, idx |-> 1, updates |-> NoUpdates,
     asked |-> {}, failed |-> {}]

\* a createJoinRequest call: the pending request its query found, the id it returns
IdleJoin == [pc |-> "idle", existing |-> 0, result |-> 0]
\* a run of the onAuthStateChanged callback: the firebaseUser it was called with
IdleHandler == [pc |-> "idle", uid |-> "null"]
NoUser == "null"                                 \* user === null, getItem('user') === null

\* a spool left on the device by an earlier run of the app: one message to c1,
\* spooled at time 0, before this run started
PriorMessage == [Base(0, "c1", TRUE, 0) EXCEPT !.id = LocalId(0)]
PriorSpool   == Stored(<<[cid |-> "c1", msgs |-> <<PriorMessage>>]>>)

Init ==
    /\ messagesByConversation = [c \in Conv |-> NoList]
    /\ isOfflineMode = FALSE
    /\ spool \in {Absent, PriorSpool}
    /\ remoteMessages = {}
    /\ lastMessage = [c \in Conv |-> NoLast]
    /\ subscribed = {}
    /\ now = 1
    /\ startup = [pc |-> "getItem", raw |-> Absent]
    /\ sends = [s \in SendIds |-> IdleSend]
    /\ drains = [d \in DrainIds |-> IdleDrain]
    /\ loads = [l \in LoadIds |-> IdleLoad]
    /\ unsynced = [literal |-> {}, effective |-> {}]
    /\ error = NoError
    /\ updatedAt = [c \in Conv |-> 0]
    /\ inflight = [c \in Conv |-> NoEvent]
    /\ tornDown = {}
    /\ discarded = {}
    /\ conversations = <<>>
    /\ effectDue = FALSE
    /\ dmProfiles = [c \in Conv |-> NoProfile]
    /\ passes = [p \in PassIds |-> IdlePass]
    /\ joinRequests = {}
    /\ joinCalls = [j \in JoinIds |-> IdleJoin]
    /\ user = NoUser
    /\ userRecord = NoUser
    /\ authEvents = <<>>
    /\ handlers = [e \in EventIds |-> IdleHandler]

\* ------------------------------------------------------------------ clock, mode
Tick ==
    /\ now < MaxClock
    /\ now' = now + 1
    /\ UNCHANGED <<messagesByConversation, isOfflineMode, spool, remoteMessages,
                   lastMessage, subscribed, startup, sends, drains, loads,
                   unsynced, error, updatedAt, listenerVars, screenVars, communityVars, authVars>>

SetIsOfflineMode ==
    /\ isOfflineMode' = ~isOfflineMode
    /\ UNCHANGED <<messagesByConversation, spool, remoteMessages, lastMessage,
                   subscribed, now, startup, sends, drains, loads,
                   unsynced, error, updatedAt, listenerVars, screenVars, communityVars, authVars>>

\* ------------------------------------------------------------------ startup effect
StartupRead ==
    /\ startup.pc = "getItem"
    /\ startup' = [pc |-> "apply", raw |-> spool]
    /\ UNCHANGED <<messagesByConversation, isOfflineMode, spool, remoteMessages,
                   lastMessage, subscribed, now, sends, drains, loads,
                   unsynced, error, updatedAt, listenerVars, screenVars, communityVars, authVars>>

\* getItem rejects or JSON.parse throws: the catch block does nothing
StartupReadFail ==
    /\ startup.pc = "getItem"
    /\ startup' = [pc |-> "done", raw |-> Absent]
    /\ UNCHANGED <<messagesByConversation, isOfflineMode, spool, remoteMessages,
                   lastMessage, subscribed, now, sends, drains, loads,
                   unsynced, error, updatedAt, listenerVars, screenVars, communityVars, authVars>>

StartupApply ==
    /\ startup.pc = "apply"
    /\ messagesByConversation' = MergeSpool(ParseSpool(startup.raw), messagesByConversation)
    /\ startup' = [startup EXCEPT !.pc = "done"]
    /\ UNCHANGED <<isOfflineMode, spool, remoteMessages, lastMessage, subscribed, now,
                   sends, drains, loads,
                   unsynced, error, updatedAt, listenerVars, screenVars, communityVars, authVars>>

\* ------------------------------------------------------------------ sendMessage
BaseOf(s) == Base(s, sends[s].cid, sends[s].offline, sends[s].t)

\* where a call goes after `base` is built: the offline branch or the online send
SendBranch(offline) == IF offline THEN "getItem" ELSE "create"

\* the offline branch with its `return` missing: it falls into the online send
AfterSpoolWriteFallThrough == "create"

\* the offline branch ends in `return`
AfterSpoolWrite == "done"

\* the offline branch without its setMessagesByConversation call
AppendLocalSkipped(prev, c, base) == prev

\* the offline branch's setMessagesByConversation updater
AppendLocal(prev, c, base) ==
    SetList(prev, c, Append(ListOf(prev, c), [base EXCEPT !.id = LocalId(now)]))

\* the online merge with the Map left out: `saved` is appended
MergeSavedAppend(prev, c, saved) == SetList(prev, c, Append(ListOf(prev, c), saved))

\* the online send's setMessagesByConversation updater
MergeSaved(prev, c, saved) ==
    SetList(prev, c, MapSet(DedupeById(ListOf(prev, c)), saved))

SendCall(s, c, opt) ==
    /\ sends[s].pc = "idle"
    /\ \A r \in SendIds : r < s => sends[r].pc # "idle"
    /\ LET offline == EffectiveOffline(opt, isOfflineMode)
       IN  /\ sends' = [sends EXCEPT ![s] =
                  [IdleSend EXCEPT !.pc = SendBranch(offline), !.cid = c,
                                   !.offline = offline, !.t = now]]
           /\ messagesByConversation' =
                  IF offline
                  THEN AppendLocal(messagesByConversation, c, Base(s, c, offline, now))
                  ELSE messagesByConversation
           /\ unsynced' =
                  [literal   |-> unsynced.literal \cup
                                     (IF isOfflineMode \/ opt = "true" THEN {s} ELSE {}),
                   effective |-> unsynced.effective \cup (IF offline THEN {s} ELSE {})]
    /\ error' = NoError
    /\ UNCHANGED <<isOfflineMode, spool, remoteMessages, lastMessage, subscribed, now,
                   startup, drains, loads, updatedAt, listenerVars, screenVars, communityVars, authVars>>

SendSpoolRead(s) ==
    /\ sends[s].pc = "getItem"
    /\ sends' = [sends EXCEPT ![s].pc = "setItem", ![s].raw = spool]
    /\ UNCHANGED <<messagesByConversation, isOfflineMode, spool, remoteMessages,
                   lastMessage, subscribed, now, startup, drains, loads,
                   unsynced, error, updatedAt, listenerVars, screenVars, communityVars, authVars>>

\* getItem rejects or JSON.parse throws: nothing catches it, the call rejects
SendSpoolReadFail(s) ==
    /\ sends[s].pc = "getItem"
    /\ sends' = [sends EXCEPT ![s] = Ended("rejected")]
    /\ UNCHANGED <<messagesByConversation, isOfflineMode, spool, remoteMessages,
                   lastMessage, subscribed, now, startup, drains, loads,
                   unsynced, error, updatedAt, listenerVars, screenVars, communityVars, authVars>>

\* setItem rejects: nothing catches it, the call rejects
SendSpoolWriteFail(s) ==
    /\ sends[s].pc = "setItem"
    /\ sends' = [sends EXCEPT ![s] = Ended("rejected")]
    /\ UNCHANGED <<messagesByConversation, isOfflineMode, spool, remoteMessages,
                   lastMessage, subscribed, now, startup, drains, loads,
                   unsynced, error, updatedAt, listenerVars, screenVars, communityVars, authVars>>

SendSpoolWrite(s) ==
    /\ sends[s].pc = "setItem"
    /\ LET sp   == ParseSpool(sends[s].raw)
           list == SpoolList(sp, sends[s].cid)
       IN  spool' = Stored(SpoolSet(sp, sends[s].cid,
                                    Append(list, [BaseOf(s) EXCEPT !.id = LocalId(now)])))
    /\ sends' = [sends EXCEPT ![s] =
           IF AfterSpoolWrite = "done" THEN Ended("done")
           ELSE [sends[s] EXCEPT !.pc = AfterSpoolWrite]]
    /\ UNCHANGED <<messagesByConversation, isOfflineMode, remoteMessages, lastMessage,
                   subscribed, now, startup, drains, loads,
                   unsynced, error, updatedAt, listenerVars, screenVars, communityVars, authVars>>

SendCreateOk(s, d) ==
    /\ sends[s].pc = "create"
    /\ d \in FreeDocIds
    /\ remoteMessages' = remoteMessages \cup {NewDoc(d, BaseOf(s))}
    /\ sends' = [sends EXCEPT ![s].pc = "merge", ![s].docId = d]
    /\ UNCHANGED <<messagesByConversation, isOfflineMode, spool, lastMessage, subscribed,
                   now, startup, drains, loads,
                   unsynced, error, updatedAt, listenerVars, screenVars, communityVars, authVars>>

\* the message put into the list before the write and left there when it fails
ListKeptAfterRejectedCreate(prev, c, base) ==
    SetList(prev, c, Append(ListOf(prev, c), [base EXCEPT !.id = LocalId(now)]))

\* createMessage rejects: the statements after the await (the merge into the list,
\* the preview update) do not run
ListAfterRejectedCreate(prev, c, base) == prev

SendCreateFail(s) ==
    /\ sends[s].pc = "create"
    /\ sends' = [sends EXCEPT ![s] = Ended("rejected")]
    /\ messagesByConversation' =
           ListAfterRejectedCreate(messagesByConversation, sends[s].cid, BaseOf(s))
    /\ UNCHANGED <<isOfflineMode, spool, remoteMessages,
                   lastMessage, subscribed, now, startup, drains, loads,
                   unsynced, error, updatedAt, listenerVars, screenVars, communityVars, authVars>>

SendMerge(s) ==
    /\ sends[s].pc = "merge"
    /\ messagesByConversation' =
           MergeSaved(messagesByConversation, sends[s].cid,
                      [BaseOf(s) EXCEPT !.id = SrvId(sends[s].docId)])
    /\ sends' = [sends EXCEPT ![s].pc = "updateLast"]
    /\ UNCHANGED <<isOfflineMode, spool, remoteMessages, lastMessage, subscribed, now,
                   startup, drains, loads,
                   unsynced, error, updatedAt, listenerVars, screenVars, communityVars, authVars>>

\* the preview written under an identifier made on the device
PreviewWithLocalId(s) == [id |-> LocalId(sends[s].t), ms |-> sends[s].t]

\* { id, content, senderId, createdAt: base.createdAt }: the id createMessage
\* returned, the creation time of `base`
Preview(s) == [id |-> SrvId(sends[s].docId), ms |-> sends[s].t]

SendUpdateLastOk(s) ==
    /\ sends[s].pc = "updateLast"
    /\ lastMessage' = [lastMessage EXCEPT ![sends[s].cid] = Preview(s)]
    /\ updatedAt' = [updatedAt EXCEPT ![sends[s].cid] = now]
    /\ sends' = [sends EXCEPT ![s] = Ended("done")]
    /\ UNCHANGED <<messagesByConversation, isOfflineMode, spool, remoteMessages,
                   subscribed, now, startup, drains, loads,
                   unsynced, error, listenerVars, screenVars, communityVars, authVars>>

\* the preview update outside any try: its failure rejects the call
RejectedAfterUpdateLastFailure == "rejected"

\* updateLastMessage rejects: the catch block warns, the call resolves
AfterUpdateLastFailure == "done"

SendUpdateLastFail(s) ==
    /\ sends[s].pc = "updateLast"
    /\ sends' = [sends EXCEPT ![s] = Ended(AfterUpdateLastFailure)]
    /\ UNCHANGED <<messagesByConversation, isOfflineMode, spool, remoteMessages,
                   lastMessage, subscribed, now, startup, drains, loads,
                   unsynced, error, updatedAt, listenerVars, screenVars, communityVars, authVars>>

\* ------------------------------------------------------------------ syncOfflineMessages
\* removeItem in a finally block instead: the spool is cleared on failure too
SpoolClearedAfterFailure(sp) == Absent

\* the persisted spool after the catch block has run: removeItem was skipped
SpoolAfterFailure(sp) == sp

\* removeItem called with another key: the record stays
SpoolKeptAfterRemove == spool

\* the persisted spool after removeItem
SpoolAfterRemove == Absent

DrainStart(d) ==
    /\ drains[d].pc = "idle"
    /\ \A r \in DrainIds : r < d => drains[r].pc # "idle"
    /\ drains' = [drains EXCEPT ![d] =
           [pc |-> "submit", copy |-> SpoolEntries(ParseSpool(spool)), idx |-> 1]]
    /\ unsynced' = [literal |-> {}, effective |-> {}]
    /\ UNCHANGED <<messagesByConversation, isOfflineMode, spool, remoteMessages,
                   lastMessage, subscribed, now, startup, sends, loads,
                   error, updatedAt, listenerVars, screenVars, communityVars, authVars>>

\* syncOfflineMessages is called again after its earlier call has returned
DrainAgain(d) ==
    /\ drains[d].pc \in {"done", "failed"}
    /\ drains' = [drains EXCEPT ![d] =
           [pc |-> "submit", copy |-> SpoolEntries(ParseSpool(spool)), idx |-> 1]]
    /\ unsynced' = [literal |-> {}, effective |-> {}]
    /\ UNCHANGED <<messagesByConversation, isOfflineMode, spool, remoteMessages,
                   lastMessage, subscribed, now, startup, sends, loads,
                   error, updatedAt, listenerVars, screenVars, communityVars, authVars>>

\* getItem rejects or JSON.parse throws: the catch block logs, the call resolves
DrainReadFail(d) ==
    /\ drains[d].pc = "idle"
    /\ \A r \in DrainIds : r < d => drains[r].pc # "idle"
    /\ drains' = [drains EXCEPT ![d] = [IdleDrain EXCEPT !.pc = "failed"]]
    /\ unsynced' = [literal |-> {}, effective |-> {}]
    /\ UNCHANGED <<messagesByConversation, isOfflineMode, spool, remoteMessages,
                   lastMessage, subscribed, now, startup, sends, loads,
                   error, updatedAt, listenerVars, screenVars, communityVars, authVars>>

DrainSubmitOk(d, id) ==
    /\ drains[d].pc = "submit"
    /\ drains[d].idx <= Len(drains[d].copy)
    /\ id \in FreeDocIds
    /\ remoteMessages' = remoteMessages \cup {NewDoc(id, drains[d].copy[drains[d].idx])}
    /\ drains' = [drains EXCEPT ![d].copy[drains[d].idx].id = SrvId(id),
                                ![d].idx = drains[d].idx + 1]
    /\ UNCHANGED <<messagesByConversation, isOfflineMode, spool, lastMessage, subscribed,
                   now, startup, sends, loads,
                   unsynced, error, updatedAt, listenerVars, screenVars, communityVars, authVars>>

DrainSubmitFail(d) ==
    /\ drains[d].pc = "submit"
    /\ drains[d].idx <= Len(drains[d].copy)
    /\ drains' = [drains EXCEPT ![d] = [IdleDrain EXCEPT !.pc = "failed"]]
    /\ spool' = SpoolAfterFailure(spool)
    /\ UNCHANGED <<messagesByConversation, isOfflineMode, remoteMessages, lastMessage,
                   subscribed, now, startup, sends, loads,
                   unsynced, error, updatedAt, listenerVars, screenVars, communityVars, authVars>>

DrainRemove(d) ==
    /\ drains[d].pc = "submit"
    /\ drains[d].idx > Len(drains[d].copy)
    /\ spool' = SpoolAfterRemove
    /\ drains' = [drains EXCEPT ![d] = [IdleDrain EXCEPT !.pc = "done"]]
    /\ UNCHANGED <<messagesByConversation, isOfflineMode, remoteMessages, lastMessage,
                   subscribed, now, startup, sends, loads,
                   unsynced, error, updatedAt, listenerVars, screenVars, communityVars, authVars>>

\* removeItem rejects: the catch block logs, the record stays
DrainRemoveFail(d) ==
    /\ drains[d].pc = "submit"
    /\ drains[d].idx > Len(drains[d].copy)
    /\ drains' = [drains EXCEPT ![d] = [IdleDrain EXCEPT !.pc = "failed"]]
    /\ UNCHANGED <<messagesByConversation, isOfflineMode, spool, remoteMessages,
                   lastMessage, subscribed, now, startup, sends, loads,
                   unsynced, error, updatedAt, listenerVars, screenVars, communityVars, authVars>>

\* ------------------------------------------------------------------ loadMessages
LoadQuery(l, c) ==
    /\ loads[l].pc = "idle"
    /\ \A r \in LoadIds : r < l => loads[r].pc # "idle"
    /\ loads' = [loads EXCEPT ![l] = [pc |-> "apply", cid |-> c, result |-> GetMessages(c)]]
    /\ error' = NoError
    /\ UNCHANGED <<messagesByConversation, isOfflineMode, spool, remoteMessages,
                   lastMessage, subscribed, now, startup, sends, drains,
                   unsynced, updatedAt, listenerVars, screenVars, communityVars, authVars>>

\* getMessages rejected: the catch block sets the error text only
LoadFail(l) ==
    /\ loads[l].pc = "idle"
    /\ \A r \in LoadIds : r < l => loads[r].pc # "idle"
    /\ loads' = [loads EXCEPT ![l] = [IdleLoad EXCEPT !.pc = "done"]]
    /\ error' = LoadError
    /\ UNCHANGED <<messagesByConversation, isOfflineMode, spool, remoteMessages,
                   lastMessage, subscribed, now, startup, sends, drains, unsynced,
                   updatedAt, listenerVars, screenVars, communityVars, authVars>>

LoadApply(l) ==
    /\ loads[l].pc = "apply"
    /\ messagesByConversation' =
           SetList(messagesByConversation, loads[l].cid, DedupeById(loads[l].result))
    /\ loads' = [loads EXCEPT ![l] = [IdleLoad EXCEPT !.pc = "done"]]
    /\ UNCHANGED <<isOfflineMode, spool, remoteMessages, lastMessage, subscribed, now,
                   startup, sends, drains,
                   unsynced, error, updatedAt, listenerVars, screenVars, communityVars, authVars>>

\* ------------------------------------------------------------------ subscribeToConversation
\* the snapshot callback adding the snapshot to the list it holds instead of replacing it
ApplySnapshotAppend(prev, c, msgs) ==
    SetList(prev, c, ListOf(prev, c) \o DedupeById(SortByCreatedAt(msgs)))

\* the snapshot callback: sort, deduplicate by id, replace the conversation's list
ApplySnapshot(prev, c, msgs) == SetList(prev, c, DedupeById(SortByCreatedAt(msgs)))

\* a teardown function that leaves the listener registered
UnlistenNoop(subs, c) == subs

\* the teardown function `unsub`, as returned by onSnapshot: the listener is removed
Unlisten(subs, c) == subs \ {c}

Subscribe(c) ==
    /\ c \notin subscribed
    /\ inflight[c] = NoEvent
    /\ subscribed' = subscribed \cup {c}
    /\ tornDown' = tornDown \ {c}
    /\ discarded' = discarded \ {c}
    /\ UNCHANGED <<messagesByConversation, isOfflineMode, spool, remoteMessages,
                   lastMessage, now, startup, sends, drains, loads,
                   unsynced, error, updatedAt, inflight, screenVars, communityVars, authVars>>

\* the cleanup of the chat screen's effect: () => unsub()
Unsubscribe(c) ==
    /\ c \in subscribed
    /\ subscribed' = Unlisten(subscribed, c)
    /\ tornDown' = tornDown \cup {c}
    /\ UNCHANGED <<messagesByConversation, isOfflineMode, spool, remoteMessages,
                   lastMessage, now, startup, sends, drains, loads,
                   unsynced, error, updatedAt, inflight, discarded, screenVars, communityVars, authVars>>

\* the backend answers the listen of c with the documents of the query
SnapshotEmit(c) ==
    /\ c \in subscribed
    /\ inflight[c] = NoEvent
    /\ inflight' = [inflight EXCEPT ![c] = SnapshotEvent(QueryMessages(c))]
    /\ UNCHANGED <<messagesByConversation, isOfflineMode, spool, remoteMessages,
                   lastMessage, subscribed, now, startup, sends, drains, loads,
                   unsynced, error, updatedAt, tornDown, discarded, screenVars, communityVars, authVars>>

\* the backend refuses the listen of c
ErrorEmit(c) ==
    /\ c \in subscribed
    /\ inflight[c] = NoEvent
    /\ inflight' = [inflight EXCEPT ![c] = ErrorEvent]
    /\ UNCHANGED <<messagesByConversation, isOfflineMode, spool, remoteMessages,
                   lastMessage, subscribed, now, startup, sends, drains, loads,
                   unsynced, error, updatedAt, tornDown, discarded, screenVars, communityVars, authVars>>

\* a snapshot reaches the client: the callback runs if the listener is still
\* registered, otherwise the snapshot is discarded
SnapshotDeliver(c) ==
    /\ inflight[c].kind = "snapshot"
    /\ ConsistentComparator({inflight[c].msgs[i] : i \in 1..Len(inflight[c].msgs)})
    /\ inflight' = [inflight EXCEPT ![c] = NoEvent]
    /\ IF c \in subscribed
       THEN /\ messagesByConversation' =
                   ApplySnapshot(messagesByConversation, c, inflight[c].msgs)
            /\ UNCHANGED discarded
       ELSE /\ discarded' = discarded \cup {c}
            /\ UNCHANGED messagesByConversation
    /\ UNCHANGED <<isOfflineMode, spool, remoteMessages, lastMessage, subscribed, now,
                   startup, sends, drains, loads,
                   unsynced, error, updatedAt, tornDown, screenVars, communityVars, authVars>>

\* a listen error reaches the client: the error callback runs if the listener is
\* still registered, and the listener is over
ErrorDeliver(c) ==
    /\ inflight[c].kind = "error"
    /\ inflight' = [inflight EXCEPT ![c] = NoEvent]
    /\ IF c \in subscribed
       THEN /\ error' = AuthError
            /\ subscribed' = subscribed \ {c}
            /\ UNCHANGED discarded
       ELSE /\ discarded' = discarded \cup {c}
            /\ UNCHANGED <<error, subscribed>>
    /\ UNCHANGED <<messagesByConversation, isOfflineMode, spool, remoteMessages,
                   lastMessage, now, startup, sends, drains, loads,
                   unsynced, updatedAt, tornDown, screenVars, communityVars, authVars>>

\* a snapshot delivered as soon as it is made
Snapshot(c) ==
    /\ c \in subscribed
    /\ ConsistentComparator(MessagesOf(c))
    /\ messagesByConversation' = ApplySnapshot(messagesByConversation, c, QueryMessages(c))
    /\ UNCHANGED <<isOfflineMode, spool, remoteMessages, lastMessage, subscribed, now,
                   startup, sends, drains, loads,
                   unsynced, error, updatedAt, listenerVars, screenVars, communityVars, authVars>>

\* a snapshot that the comparator does not order consistently: the sort may leave
\* it in any order
SnapshotUnordered(c) ==
    /\ c \in subscribed
    /\ ~ConsistentComparator(MessagesOf(c))
    /\ \E sorted \in Orderings(QueryMessages(c)) :
           messagesByConversation' = SetList(messagesByConversation, c, DedupeById(sorted))
    /\ UNCHANGED <<isOfflineMode, spool, remoteMessages, lastMessage, subscribed, now,
                   startup, sends, drains, loads,
                   unsynced, error, updatedAt, listenerVars, screenVars, communityVars, authVars>>

\* ------------------------------------------------------------------ subscribeToConversations
\* the callback of subscribeToUserConversations: the service sorts, the store
\* deduplicates by id and publishes; the new array makes the screen's effect run
ConversationsSnapshot ==
    /\ conversations' = DedupeById(SortByUpdatedAtDesc(QueryConversations))
    /\ effectDue' = TRUE
    /\ UNCHANGED <<messagesByConversation, isOfflineMode, spool, remoteMessages,
                   lastMessage, subscribed, now, startup, sends, drains, loads,
                   unsynced, error, updatedAt, listenerVars, dmProfiles, passes,
                   communityVars, authVars>>

\* ------------------------------------------------------------------ profile effect
\* the try/catch around the whole loop instead: a failed lookup ends the pass
AbortAfterFailure(pass) == Len(pass.toFetch) + 1

\* the catch block is inside the loop: the pass goes on with the next conversation
NextAfterFailure(pass) == pass.idx + 1

\* the effect body: nothing to fetch, or the async block is started
ProfileEffect ==
    /\ effectDue
    /\ effectDue' = FALSE
    /\ LET toFetch == ToFetch(conversations, dmProfiles)
       IN  IF toFetch = <<>> THEN UNCHANGED passes
           ELSE \E p \in PassIds :
                    /\ passes[p].pc = "idle"
                    /\ \A r \in PassIds : r < p => passes[r].pc # "idle"
                    /\ passes' = [passes EXCEPT ![p] =
                           [IdlePass EXCEPT !.pc = "run", !.toFetch = toFetch]]
    /\ UNCHANGED <<messagesByConversation, isOfflineMode, spool, remoteMessages,
                   lastMessage, subscribed, now, startup, sends, drains, loads,
                   unsynced, error, updatedAt, listenerVars, conversations, dmProfiles,
                   communityVars, authVars>>

\* getUser(other) resolves with the user
LookupOk(p) ==
    /\ passes[p].pc = "run"
    /\ passes[p].idx <= Len(passes[p].toFetch)
    /\ LET c == passes[p].toFetch[passes[p].idx]
       IN  passes' = [passes EXCEPT ![p].updates[c] = ProfileOf(UserOf(c)),
                                    ![p].asked = passes[p].asked \cup {c},
                                    ![p].idx = passes[p].idx + 1]
    /\ UNCHANGED <<messagesByConversation, isOfflineMode, spool, remoteMessages,
                   lastMessage, subscribed, now, startup, sends, drains, loads,
                   unsynced, error, updatedAt, listenerVars,
                   conversations, effectDue, dmProfiles,
                   communityVars, authVars>>

\* getUser(other) resolves with null: no such user
LookupNull(p) ==
    /\ passes[p].pc = "run"
    /\ passes[p].idx <= Len(passes[p].toFetch)
    /\ passes' = [passes EXCEPT
           ![p].asked = passes[p].asked \cup {passes[p].toFetch[passes[p].idx]},
           ![p].idx = passes[p].idx + 1]
    /\ UNCHANGED <<messagesByConversation, isOfflineMode, spool, remoteMessages,
                   lastMessage, subscribed, now, startup, sends, drains, loads,
                   unsynced, error, updatedAt, listenerVars,
                   conversations, effectDue, dmProfiles,
                   communityVars, authVars>>

\* getUser(other) rejects
LookupFail(p) ==
    /\ passes[p].pc = "run"
    /\ passes[p].idx <= Len(passes[p].toFetch)
    /\ passes' = [passes EXCEPT
           ![p].asked = passes[p].asked \cup {passes[p].toFetch[passes[p].idx]},
           ![p].failed = passes[p].failed \cup {passes[p].toFetch[passes[p].idx]},
           ![p].idx = NextAfterFailure(passes[p])]
    /\ UNCHANGED <<messagesByConversation, isOfflineMode, spool, remoteMessages,
                   lastMessage, subscribed, now, startup, sends, drains, loads,
                   unsynced, error, updatedAt, listenerVars,
                   conversations, effectDue, dmProfiles,
                   communityVars, authVars>>

\* the end of the async block: if (Object.keys(updates).length) setDmProfiles(...)
PassFinish(p) ==
    /\ passes[p].pc = "run"
    /\ passes[p].idx > Len(passes[p].toFetch)
    /\ passes' = [passes EXCEPT ![p].pc = "done"]
    /\ IF passes[p].updates # NoUpdates
       THEN /\ dmProfiles' = MergeProfiles(dmProfiles, passes[p].updates)
            /\ effectDue' = TRUE
       ELSE UNCHANGED <<dmProfiles, effectDue>>
    /\ UNCHANGED <<messagesByConversation, isOfflineMode, spool, remoteMessages,
                   lastMessage, subscribed, now, startup, sends, drains, loads,
                   unsynced, error, updatedAt, listenerVars, conversations,
                   communityVars, authVars>>

\* ------------------------------------------------------------------ createJoinRequest
\* the join requests of one community and one user; their document ids are
\* auto-generated like those of the messages
RequestIds == 1..MaxDocs
FreeRequestIds == RequestIds \ {r.id : r \in joinRequests}

PendingRequests == {r \in joinRequests : r.status = "pending"}

\* getPendingJoinRequest: results[0] || null of the query with limit(1); the query
\* returns the documents in document-id order, 0 stands for null
GetPendingJoinRequest ==
    IF PendingRequests = {} THEN 0
    ELSE (CHOOSE r \in PendingRequests : \A q \in PendingRequests : r.id <= q.id).id

\* createJoinRequest up to the point where getPendingJoinRequest has resolved
JoinQuery(j) ==
    /\ joinCalls[j].pc = "idle"
    /\ \A i \in JoinIds : i < j => joinCalls[i].pc # "idle"
    /\ joinCalls' = [joinCalls EXCEPT ![j] =
           [pc       |-> IF GetPendingJoinRequest # 0 THEN "update" ELSE "create",
            existing |-> GetPendingJoinRequest,
            result   |-> 0]]
    /\ UNCHANGED <<messagesByConversation, isOfflineMode, spool, remoteMessages,
                   lastMessage, subscribed, now, startup, sends, drains, loads,
                   unsynced, error, updatedAt, listenerVars, screenVars,
                   joinRequests, authVars>>

\* a pending request was found: its message is patched and its id returned
JoinUpdate(j) ==
    /\ joinCalls[j].pc = "update"
    /\ joinCalls' = [joinCalls EXCEPT ![j].pc = "done", ![j].result = joinCalls[j].existing]
    /\ UNCHANGED <<messagesByConversation, isOfflineMode, spool, remoteMessages,
                   lastMessage, subscribed, now, startup, sends, drains, loads,
                   unsynced, error, updatedAt, listenerVars, screenVars,
                   joinRequests, authVars>>

\* none was found: a new document is created with status: data.status ?? 'pending'
JoinCreate(j, id) ==
    /\ joinCalls[j].pc = "create"
    /\ id \in FreeRequestIds
    /\ joinRequests' = joinRequests \cup {[id |-> id, status |-> "pending"]}
    /\ joinCalls' = [joinCalls EXCEPT ![j].pc = "done", ![j].result = id]
    /\ UNCHANGED <<messagesByConversation, isOfflineMode, spool, remoteMessages,
                   lastMessage, subscribed, now, startup, sends, drains, loads,
                   unsynced, error, updatedAt, listenerVars, screenVars, authVars>>

\* the query, the update or the create rejects: the call rejects
JoinFail(j) ==
    /\ joinCalls[j].pc \in {"idle", "update", "create"}
    /\ \A i \in JoinIds : i < j => joinCalls[i].pc # "idle"
    /\ joinCalls' = [joinCalls EXCEPT ![j] = [IdleJoin EXCEPT !.pc = "rejected"]]
    /\ UNCHANGED <<messagesByConversation, isOfflineMode, spool, remoteMessages,
                   lastMessage, subscribed, now, startup, sends, drains, loads,
                   unsynced, error, updatedAt, listenerVars, screenVars,
                   joinRequests, authVars>>

\* reviewJoinRequest: a moderator sets the status of the request with this id
JoinReview(id, status) ==
    /\ \E r \in joinRequests : r.id = id
    /\ joinRequests' = {r \in joinRequests : r.id # id} \cup {[id |-> id, status |-> status]}
    /\ UNCHANGED <<messagesByConversation, isOfflineMode, spool, remoteMessages,
                   lastMessage, subscribed, now, startup, sends, drains, loads,
                   unsynced, error, updatedAt, listenerVars, screenVars,
                   joinCalls, authVars>>

\* ------------------------------------------------------------------ auth store
Uids == {"u1"}                       \* the accounts that sign in on this device

isAuthenticated == user # NoUser     \* isAuthenticated: !!user

\* what the latest auth-state event carried; the listener fires when it changes
LastEvent == IF authEvents = <<>> THEN "none" ELSE authEvents[Len(authEvents)]

\* onAuthStateChanged calls the callback with a user: the callback runs up to
\* `await getDoc(...)`
SignInEvent(e, uid) ==
    /\ e = Len(authEvents) + 1
    /\ LastEvent # uid
    /\ authEvents' = Append(authEvents, uid)
    /\ handlers' = [handlers EXCEPT ![e] = [pc |-> "getDoc", uid |-> uid]]
    /\ UNCHANGED <<messagesByConversation, isOfflineMode, spool, remoteMessages,
                   lastMessage, subscribed, now, startup, sends, drains, loads,
                   unsynced, error, updatedAt, listenerVars, screenVars, communityVars,
                   user, userRecord>>

\* onAuthStateChanged calls the callback with null: the callback runs setUser(null)
\* and stops at `await AsyncStorage.removeItem('user')`
SignOutEvent(e) ==
    /\ e = Len(authEvents) + 1
    /\ LastEvent # NoUser
    /\ authEvents' = Append(authEvents, NoUser)
    /\ user' = NoUser
    /\ handlers' = [handlers EXCEPT ![e] = [pc |-> "removeItem", uid |-> NoUser]]
    /\ UNCHANGED <<messagesByConversation, isOfflineMode, spool, remoteMessages,
                   lastMessage, subscribed, now, startup, sends, drains, loads,
                   unsynced, error, updatedAt, listenerVars, screenVars, communityVars,
                   userRecord>>

\* getDoc resolves with an existing document (setUser(appUser)), or it rejects
\* (the catch block: setUser(fallbackUser)); the callback stops at setItem
GetDocDone(e) ==
    /\ handlers[e].pc = "getDoc"
    /\ user' = handlers[e].uid
    /\ handlers' = [handlers EXCEPT ![e].pc = "setItem"]
    /\ UNCHANGED <<messagesByConversation, isOfflineMode, spool, remoteMessages,
                   lastMessage, subscribed, now, startup, sends, drains, loads,
                   unsynced, error, updatedAt, listenerVars, screenVars, communityVars,
                   userRecord, authEvents>>

\* getDoc resolves and the document does not exist: the callback stops at setDoc
GetDocMissing(e) ==
    /\ handlers[e].pc = "getDoc"
    /\ handlers' = [handlers EXCEPT ![e].pc = "setDoc"]
    /\ UNCHANGED <<messagesByConversation, isOfflineMode, spool, remoteMessages,
                   lastMessage, subscribed, now, startup, sends, drains, loads,
                   unsynced, error, updatedAt, listenerVars, screenVars, communityVars,
                   user, userRecord, authEvents>>

\* setDoc resolves (setUser(newUser)) or rejects (setUser(fallbackUser))
SetDocDone(e) ==
    /\ handlers[e].pc = "setDoc"
    /\ user' = handlers[e].uid
    /\ handlers' = [handlers EXCEPT ![e].pc = "setItem"]
    /\ UNCHANGED <<messagesByConversation, isOfflineMode, spool, remoteMessages,
                   lastMessage, subscribed, now, startup, sends, drains, loads,
                   unsynced, error, updatedAt, listenerVars, screenVars, communityVars,
                   userRecord, authEvents>>

\* AsyncStorage.setItem('user', ...) resolves, the callback returns
SetItemDone(e) ==
    /\ handlers[e].pc = "setItem"
    /\ userRecord' = handlers[e].uid
    /\ handlers' = [handlers EXCEPT ![e].pc = "done"]
    /\ UNCHANGED <<messagesByConversation, isOfflineMode, spool, remoteMessages,
                   lastMessage, subscribed, now, startup, sends, drains, loads,
                   unsynced, error, updatedAt, listenerVars, screenVars, communityVars,
                   user, authEvents>>

\* AsyncStorage.removeItem('user') resolves, the callback returns
RemoveItemDone(e) ==
    /\ handlers[e].pc = "removeItem"
    /\ userRecord' = NoUser
    /\ handlers' = [handlers EXCEPT ![e].pc = "done"]
    /\ UNCHANGED <<messagesByConversation, isOfflineMode, spool, remoteMessages,
                   lastMessage, subscribed, now, startup, sends, drains, loads,
                   unsynced, error, updatedAt, listenerVars, screenVars, communityVars,
                   user, authEvents>>

\* ------------------------------------------------------------------ specification
Next ==
    \/ Tick
    \/ SetIsOfflineMode
    \/ StartupRead
    \/ StartupApply
    \/ \E s \in SendIds, c \in Conv, opt \in {"none", "true", "false"} : SendCall(s, c, opt)
    \/ \E s \in SendIds : SendSpoolRead(s)
    \/ \E s \in SendIds : SendSpoolWrite(s)
    \/ \E s \in SendIds, d \in DocIds : SendCreateOk(s, d)
    \/ \E s \in SendIds : SendCreateFail(s)
    \/ \E s \in SendIds : SendMerge(s)
    \/ \E s \in SendIds : SendUpdateLastOk(s)
    \/ \E s \in SendIds : SendUpdateLastFail(s)
    \/ \E d \in DrainIds : DrainStart(d)
    \/ \E d \in DrainIds, id \in DocIds : DrainSubmitOk(d, id)
    \/ \E d \in DrainIds : DrainSubmitFail(d)
    \/ \E d \in DrainIds : DrainRemove(d)
    \/ \E l \in LoadIds, c \in Conv : LoadQuery(l, c)
    \/ \E l \in LoadIds : LoadFail(l)
    \/ \E l \in LoadIds : LoadApply(l)
    \/ \E c \in Conv : Subscribe(c)
    \/ \E c \in Conv : Unsubscribe(c)
    \/ \E c \in Conv : Snapshot(c)
    \/ \E c \in Conv : SnapshotUnordered(c)
    \/ \E c \in Conv : SnapshotEmit(c)
    \/ \E c \in Conv : ErrorEmit(c)
    \/ \E c \in Conv : SnapshotDeliver(c)
    \/ \E c \in Conv : ErrorDeliver(c)
    \/ StartupReadFail
    \/ \E s \in SendIds : SendSpoolReadFail(s)
    \/ \E s \in SendIds : SendSpoolWriteFail(s)
    \/ \E d \in DrainIds : DrainReadFail(d)
    \/ \E d \in DrainIds : DrainRemoveFail(d)
    \/ ConversationsSnapshot
    \/ ProfileEffect
    \/ \E p \in PassIds : LookupOk(p)
    \/ \E p \in PassIds : LookupNull(p)
    \/ \E p \in PassIds : LookupFail(p)
    \/ \E p \in PassIds : PassFinish(p)
    \/ \E j \in JoinIds : JoinQuery(j)
    \/ \E j \in JoinIds : JoinUpdate(j)
    \/ \E j \in JoinIds, id \in RequestIds : JoinCreate(j, id)
    \/ \E j \in JoinIds : JoinFail(j)
    \/ \E id \in RequestIds, status \in {"approved", "rejected"} : JoinReview(id, status)
    \/ \E d \in DrainIds : DrainAgain(d)
    \/ \E e \in EventIds, uid \in Uids : SignInEvent(e, uid)
    \/ \E e \in EventIds : SignOutEvent(e)
    \/ \E e \in EventIds : GetDocDone(e)
    \/ \E e \in EventIds : GetDocMissing(e)
    \/ \E e \in EventIds : SetDocDone(e)
    \/ \E e \in EventIds : SetItemDone(e)
    \/ \E e \in EventIds : RemoveItemDone(e)

Spec == Init /\ [][Next]_vars

\* the startup load is over and no sendMessage, syncOfflineMessages or loadMessages
\* call is in progress
Quiet ==
    /\ startup.pc = "done"
    /\ \A s \in SendIds : sends[s].pc \in {"idle", "done", "rejected"}
    /\ \A d \in DrainIds : drains[d].pc \in {"idle", "done", "failed"}
    /\ \A l \in LoadIds : loads[l].pc \in {"idle", "done"}

\* The dispatcher and the spool with overlapping calls: sends and drains only.
NextSpool ==
    \/ Tick
    \/ SetIsOfflineMode
    \/ \E s \in SendIds, c \in Conv, opt \in {"none", "true", "false"} : SendCall(s, c, opt)
    \/ \E s \in SendIds : SendSpoolRead(s)
    \/ \E s \in SendIds : SendSpoolWrite(s)
    \/ \E s \in SendIds, d \in DocIds : SendCreateOk(s, d)
    \/ \E s \in SendIds : SendCreateFail(s)
    \/ \E s \in SendIds : SendMerge(s)
    \/ \E s \in SendIds : SendUpdateLastOk(s)
    \/ \E s \in SendIds : SendUpdateLastFail(s)
    \/ \E d \in DrainIds : DrainStart(d)
    \/ \E d \in DrainIds, id \in DocIds : DrainSubmitOk(d, id)
    \/ \E d \in DrainIds : DrainSubmitFail(d)
    \/ \E d \in DrainIds : DrainRemove(d)

SpecSpool == Init /\ [][NextSpool]_vars

\* The synchronizer: the calls of the store one at a time, after the startup load,
\* with subscriptions, snapshots and clock ticks between the steps of a call.  The
\* offline branch is taken through options.offline.
NextSync ==
    \/ Tick
    \/ StartupRead
    \/ StartupApply
    \/ \E s \in SendIds, c \in Conv, opt \in {"none", "true", "false"} :
           Quiet /\ SendCall(s, c, opt)
    \/ \E s \in SendIds : SendSpoolRead(s)
    \/ \E s \in SendIds : SendSpoolWrite(s)
    \/ \E s \in SendIds, d \in DocIds : SendCreateOk(s, d)
    \/ \E s \in SendIds : SendCreateFail(s)
    \/ \E s \in SendIds : SendMerge(s)
    \/ \E s \in SendIds : SendUpdateLastOk(s)
    \/ \E s \in SendIds : SendUpdateLastFail(s)
    \/ \E d \in DrainIds : Quiet /\ DrainStart(d)
    \/ \E d \in DrainIds, id \in DocIds : DrainSubmitOk(d, id)
    \/ \E d \in DrainIds : DrainSubmitFail(d)
    \/ \E d \in DrainIds : DrainRemove(d)
    \/ \E l \in LoadIds, c \in Conv : Quiet /\ LoadQuery(l, c)
    \/ \E l \in LoadIds : LoadApply(l)
    \/ \E c \in Conv : Subscribe(c)
    \/ \E c \in Conv : Snapshot(c)

SpecSync == Init /\ [][NextSync]_vars

\* no sendMessage, syncOfflineMessages or loadMessages call is in progress
NoCall ==
    /\ \A s \in SendIds : sends[s].pc \in {"idle", "done", "rejected"}
    /\ \A d \in DrainIds : drains[d].pc \in {"idle", "done", "failed"}
    /\ \A l \in LoadIds : loads[l].pc \in {"idle", "done"}

\* The listener of a conversation with its events in transit: online sends, one at
\* a time, change the collection and the list, a load fails, the chat screen
\* subscribes and tears down, and the events of the listener arrive some time
\* after they were made.
NextListen ==
    \/ \E s \in SendIds, c \in Conv : NoCall /\ SendCall(s, c, "false")
    \/ \E s \in SendIds, d \in DocIds : SendCreateOk(s, d)
    \/ \E s \in SendIds : SendCreateFail(s)
    \/ \E s \in SendIds : SendMerge(s)
    \/ \E s \in SendIds : SendUpdateLastOk(s)
    \/ \E s \in SendIds : SendUpdateLastFail(s)
    \/ \E l \in LoadIds : NoCall /\ LoadFail(l)
    \/ \E c \in Conv : Subscribe(c)
    \/ \E c \in Conv : Unsubscribe(c)
    \/ \E c \in Conv : SnapshotEmit(c)
    \/ \E c \in Conv : ErrorEmit(c)
    \/ \E c \in Conv : SnapshotDeliver(c)
    \/ \E c \in Conv : ErrorDeliver(c)

SpecListen == Init /\ [][NextListen]_vars

\* The spool on a device whose local storage can fail: offline sends and drains,
\* overlapping, and the startup load.
NextStorage ==
    \/ Tick
    \/ StartupRead
    \/ StartupReadFail
    \/ StartupApply
    \/ \E s \in SendIds, c \in Conv : SendCall(s, c, "true")
    \/ \E s \in SendIds : SendSpoolRead(s)
    \/ \E s \in SendIds : SendSpoolReadFail(s)
    \/ \E s \in SendIds : SendSpoolWrite(s)
    \/ \E s \in SendIds : SendSpoolWriteFail(s)
    \/ \E d \in DrainIds : DrainStart(d)
    \/ \E d \in DrainIds : DrainReadFail(d)
    \/ \E d \in DrainIds, id \in DocIds : DrainSubmitOk(d, id)
    \/ \E d \in DrainIds : DrainSubmitFail(d)
    \/ \E d \in DrainIds : DrainRemove(d)
    \/ \E d \in DrainIds : DrainRemoveFail(d)

SpecStorage == Init /\ [][NextStorage]_vars

\* The conversation list of the messages screen: conversations snapshots and the
\* runs of the profile effect they start.
NextProfiles ==
    \/ ConversationsSnapshot
    \/ ProfileEffect
    \/ \E p \in PassIds : LookupOk(p)
    \/ \E p \in PassIds : LookupNull(p)
    \/ \E p \in PassIds : LookupFail(p)
    \/ \E p \in PassIds : PassFinish(p)

SpecProfiles == Init /\ [][NextProfiles]_vars

\* The conversation list and the traffic that moves it: the calls of the store one
\* at a time, after the startup load, and conversations snapshots between their steps.
NextPreview ==
    \/ Tick
    \/ StartupRead
    \/ StartupApply
    \/ \E s \in SendIds, c \in Conv, opt \in {"true", "false"} :
           Quiet /\ SendCall(s, c, opt)
    \/ \E s \in SendIds : SendSpoolRead(s)
    \/ \E s \in SendIds : SendSpoolWrite(s)
    \/ \E s \in SendIds, d \in DocIds : SendCreateOk(s, d)
    \/ \E s \in SendIds : SendCreateFail(s)
    \/ \E s \in SendIds : SendMerge(s)
    \/ \E s \in SendIds : SendUpdateLastOk(s)
    \/ \E s \in SendIds : SendUpdateLastFail(s)
    \/ \E d \in DrainIds : Quiet /\ DrainStart(d)
    \/ \E d \in DrainIds, id \in DocIds : DrainSubmitOk(d, id)
    \/ \E d \in DrainIds : DrainSubmitFail(d)
    \/ \E d \in DrainIds : DrainRemove(d)
    \/ ConversationsSnapshot

SpecPreview == Init /\ [][NextPreview]_vars

\* The sort of a snapshot: a messages collection that holds documents of c1 written
\* by any client, with creation timestamps of every encoding, and a listener on it.
CreatedAtValues == {Ts(1), Ts(2), Iso(1), Iso(2), Missing, Pending, BadString}

ForeignDoc(d, createdAt) ==
    [docId |-> d, data |-> [Base(d, "c1", FALSE, 0) EXCEPT !.createdAt = createdAt]]

InitSort ==
    /\ messagesByConversation = [c \in Conv |-> NoList]
    /\ isOfflineMode = FALSE
    /\ spool = Absent
    /\ \E n \in 2..MaxDocs : \E createdAt \in [1..n -> CreatedAtValues] :
           remoteMessages = {ForeignDoc(d, createdAt[d]) : d \in 1..n}
    /\ lastMessage = [c \in Conv |-> NoLast]
    /\ subscribed = {}
    /\ now = 1
    /\ startup = [pc |-> "getItem", raw |-> Absent]
    /\ sends = [s \in SendIds |-> IdleSend]
    /\ drains = [d \in DrainIds |-> IdleDrain]
    /\ loads = [l \in LoadIds |-> IdleLoad]
    /\ unsynced = [literal |-> {}, effective |-> {}]
    /\ error = NoError
    /\ updatedAt = [c \in Conv |-> 0]
    /\ inflight = [c \in Conv |-> NoEvent]
    /\ tornDown = {}
    /\ discarded = {}
    /\ conversations = <<>>
    /\ effectDue = FALSE
    /\ dmProfiles = [c \in Conv |-> NoProfile]
    /\ passes = [p \in PassIds |-> IdlePass]
    /\ joinRequests = {}
    /\ joinCalls = [j \in JoinIds |-> IdleJoin]
    /\ user = NoUser
    /\ userRecord = NoUser
    /\ authEvents = <<>>
    /\ handlers = [e \in EventIds |-> IdleHandler]

NextSort ==
    \/ \E c \in Conv : Subscribe(c)
    \/ \E c \in Conv : Snapshot(c)
    \/ \E c \in Conv : SnapshotUnordered(c)

SpecSort == InitSort /\ [][NextSort]_vars

\* no sendMessage or loadMessages call is in progress
NoSendOrLoad ==
    /\ \A s \in SendIds : sends[s].pc \in {"idle", "done", "rejected"}
    /\ \A l \in LoadIds : loads[l].pc \in {"idle", "done"}

\* Everything that runs beside the spool: sends whose branch the offline mode
\* decides, a drain that may overlap them, the startup load, a one-shot load,
\* message and conversations snapshots, and the offline mode being toggled between
\* the calls.
NextFrame ==
    \/ Quiet /\ SetIsOfflineMode
    \/ StartupRead
    \/ StartupApply
    \/ \E s \in SendIds, c \in Conv :
           startup.pc = "done" /\ NoSendOrLoad /\ SendCall(s, c, "none")
    \/ \E s \in SendIds : SendSpoolRead(s)
    \/ \E s \in SendIds : SendSpoolWrite(s)
    \/ \E s \in SendIds, d \in DocIds : SendCreateOk(s, d)
    \/ \E s \in SendIds : SendMerge(s)
    \/ \E s \in SendIds : SendUpdateLastOk(s)
    \/ \E d \in DrainIds : startup.pc = "done" /\ DrainStart(d)
    \/ \E d \in DrainIds, id \in DocIds : DrainSubmitOk(d, id)
    \/ \E d \in DrainIds : DrainSubmitFail(d)
    \/ \E d \in DrainIds : DrainRemove(d)
    \/ \E l \in LoadIds, c \in Conv : Quiet /\ LoadQuery(l, c)
    \/ \E l \in LoadIds : LoadApply(l)
    \/ \E c \in Conv : Subscribe(c)
    \/ \E c \in Conv : Snapshot(c)
    \/ ConversationsSnapshot

SpecFrame == Init /\ [][NextFrame]_vars

\* The join requests of one user for one private community: createJoinRequest calls
\* that may overlap, and a moderator reviewing requests.
NextJoin ==
    \/ \E j \in JoinIds : JoinQuery(j)
    \/ \E j \in JoinIds : JoinUpdate(j)
    \/ \E j \in JoinIds, id \in RequestIds : JoinCreate(j, id)
    \/ \E j \in JoinIds : JoinFail(j)
    \/ \E id \in RequestIds, status \in {"approved", "rejected"} : JoinReview(id, status)

SpecJoin == Init /\ [][NextJoin]_vars

\* The drain run again and again: offline sends fill the spool, and
\* syncOfflineMessages is called once more whenever its earlier call has returned.
NextDrains ==
    \/ \E s \in SendIds, c \in Conv : SendCall(s, c, "true")
    \/ \E s \in SendIds : SendSpoolRead(s)
    \/ \E s \in SendIds : SendSpoolWrite(s)
    \/ \E d \in DrainIds : DrainStart(d)
    \/ \E d \in DrainIds : DrainAgain(d)
    \/ \E d \in DrainIds, id \in DocIds : DrainSubmitOk(d, id)
    \/ \E d \in DrainIds : DrainSubmitFail(d)
    \/ \E d \in DrainIds : DrainRemove(d)

SpecDrains == Init /\ [][NextDrains]_vars

\* The chat screen: its effect starts loadMessages and subscribeToConversation,
\* online sends change the collection while the load is on its way, and snapshots
\* of the new content arrive.
NextChat ==
    \/ Tick
    \/ \E s \in SendIds, c \in Conv : SendCall(s, c, "false")
    \/ \E s \in SendIds, d \in DocIds : SendCreateOk(s, d)
    \/ \E s \in SendIds : SendMerge(s)
    \/ \E s \in SendIds : SendUpdateLastOk(s)
    \/ \E l \in LoadIds, c \in Conv : LoadQuery(l, c)
    \/ \E l \in LoadIds : LoadApply(l)
    \/ \E c \in Conv : Subscribe(c)
    \/ \E c \in Conv : Snapshot(c)

SpecChat == Init /\ [][NextChat]_vars

\* Online sends that overlap, with every remote write accepted.
NextLast ==
    \/ Tick
    \/ \E s \in SendIds, c \in Conv : SendCall(s, c, "false")
    \/ \E s \in SendIds, d \in DocIds : SendCreateOk(s, d)
    \/ \E s \in SendIds : SendMerge(s)
    \/ \E s \in SendIds : SendUpdateLastOk(s)

SpecLast == Init /\ [][NextLast]_vars

\* The auth store: sign-in and sign-out events, each starting a run of the
\* onAuthStateChanged callback; the runs overlap.
NextAuth ==
    \/ \E e \in EventIds, uid \in Uids : SignInEvent(e, uid)
    \/ \E e \in EventIds : SignOutEvent(e)
    \/ \E e \in EventIds : GetDocDone(e)
    \/ \E e \in EventIds : GetDocMissing(e)
    \/ \E e \in EventIds : SetDocDone(e)
    \/ \E e \in EventIds : SetItemDone(e)
    \/ \E e \in EventIds : RemoveItemDone(e)

SpecAuth == Init /\ [][NextAuth]_vars

\* ------------------------------------------------------------------ helpers of the properties
Range(s) == {s[i] : i \in 1..Len(s)}
IdsOf(s) == {s[i].id : i \in 1..Len(s)}
CountId(s, id) == Cardinality({i \in 1..Len(s) : s[i].id = id})
CountNonce(s, n) == Cardinality({i \in 1..Len(s) : s[i].nonce = n})
DistinctIds(s) == \A i, j \in 1..Len(s) : i # j => s[i].id # s[j].id
SpoolNonces(raw) == {m.nonce : m \in Range(SpoolEntries(ParseSpool(raw)))}
OnlinePc == {"create", "merge", "updateLast"}
DocsOfNonce(n) == {doc \in remoteMessages : doc.data.nonce = n}
\* the documents written from the spool: they carry the status of an offline send
DrainedDocs == {doc \in remoteMessages : doc.data.status = "sent"}
\* a step that changes nothing but messagesByConversation
OnlyListsChange ==
    UNCHANGED <<isOfflineMode, spool, remoteMessages, lastMessage, subscribed, now,
                startup, sends, drains, loads, unsynced, error, updatedAt,
                listenerVars, screenVars, communityVars, authVars>>

\* ------------------------------------------------------------------ C1
\* C1 (as stated): a sendMessage call made while offline mode is active, or with
\* options.offline = true, issues no write to the remote messages or conversations
\* collection, and none is issued for its message later, until syncOfflineMessages
\* is invoked.
C1_OfflineModeSendNoRemoteWrite ==
    \A s \in unsynced.literal :
        /\ sends[s].pc \notin OnlinePc
        /\ DocsOfNonce(s) = {}

\* C1 (amended): a sendMessage call whose effective offline flag is true
\* (options.offline = true, or options.offline not given while offline mode is
\* active) issues no write to the remote messages or conversations collection, and
\* none is issued for its message later, until syncOfflineMessages is invoked.
C1_EffectiveOfflineSendNoRemoteWrite ==
    \A s \in unsynced.effective :
        /\ sends[s].pc \notin OnlinePc
        /\ DocsOfNonce(s) = {}

\* an offline send made in offline mode has returned, its message is spooled and no
\* drain was started since, while another message was written remotely
C1_Witness ==
    \E s \in unsynced.effective :
        /\ isOfflineMode
        /\ sends[s].pc = "done"
        /\ s \in SpoolNonces(spool)
        /\ remoteMessages # {}

\* ------------------------------------------------------------------ C2
\* C2: when a drain completes with every createMessage call having succeeded, the
\* persisted spool record is absent, and exactly one remote write was issued for each
\* entry the drain read from the spool: every step that advances the drain adds one
\* document, and at the end every entry carries the id of its own document.
C2_SuccessfulDrainEmptiesSpool ==
    [][\A d \in DrainIds :
          /\ (drains[d].pc = "submit" /\ drains'[d].pc = "submit" /\ drains'[d] # drains[d]) =>
                \E doc \in remoteMessages' \ remoteMessages :
                    /\ remoteMessages' = remoteMessages \cup {doc}
                    /\ doc.data.nonce = drains[d].copy[drains[d].idx].nonce
                    /\ drains'[d].idx = drains[d].idx + 1
                    /\ drains'[d].copy[drains[d].idx].id = SrvId(doc.docId)
          /\ (drains[d].pc = "submit" /\ drains'[d].pc = "done") =>
                /\ ~spool'.present
                /\ remoteMessages' = remoteMessages
                /\ DistinctIds(drains[d].copy)
                /\ \A m \in Range(drains[d].copy) :
                      /\ m.id.kind = "srv"
                      /\ \E doc \in remoteMessages :
                            doc.docId = m.id.n /\ doc.data.nonce = m.nonce
      ]_vars

\* a drain of at least two entries has completed: the spool is gone and the
\* documents are there
C2_Witness ==
    /\ \E d \in DrainIds : drains[d].pc = "done"
    /\ ~spool.present
    /\ Cardinality(DrainedDocs) >= 2

\* ------------------------------------------------------------------ C3
\* C3: once a spooled message has been committed to the remote store by a drain, its
\* identifier is the server-assigned one wherever the client holds or reads it: in
\* the record as read back from the remote collection and in the in-memory list of
\* its conversation.
C3_DrainedIdIsServerAssigned ==
    \A doc \in DrainedDocs :
        /\ ReadDoc(doc).id = SrvId(doc.docId)
        /\ \A m \in Range(ListOf(messagesByConversation, doc.data.cid)) :
              m.nonce = doc.data.nonce => m.id.kind = "srv"

\* ------------------------------------------------------------------ C4
\* C4: when the Nth of M submissions of a drain fails, the persisted spool afterwards
\* contains exactly the entries N..M the drain read: the submitted entries 1..N-1
\* are removed and the unsent ones retained.
C4_FailedDrainKeepsOnlyUnsent ==
    [][\A d \in DrainIds :
          (drains[d].pc = "submit" /\ drains'[d].pc = "failed") =>
              SpoolEntries(ParseSpool(spool')) =
                  SubSeq(drains[d].copy, drains[d].idx, Len(drains[d].copy))
      ]_vars

\* ------------------------------------------------------------------ C5
\* C5 (as stated): the persisted spool record is empty at the end of every drain,
\* whether or not every submission succeeded.
C5_EveryDrainClearsSpool ==
    [][\A d \in DrainIds :
          (drains[d].pc = "submit" /\ drains'[d].pc \in {"done", "failed"}) =>
              ~spool'.present
      ]_vars

\* C5 (amended): a drain clears the persisted spool only when every submission
\* succeeded: the step that ends a successful drain removes the record, and no other
\* step of a drain, the failing submission included, changes the record, so that after
\* a failed drain it still holds every entry, the submitted ones included.
C5_DrainClearsSpoolOnlyOnSuccess ==
    [][\A d \in DrainIds :
          /\ (drains[d].pc = "submit" /\ drains'[d].pc = "done") => ~spool'.present
          /\ (drains'[d] # drains[d] /\ drains'[d].pc # "done") => spool' = spool
      ]_vars

\* a drain has failed after submitting an entry and the spool record is still there
C5_Witness ==
    /\ \E d \in DrainIds : drains[d].pc = "failed"
    /\ spool.present
    /\ DrainedDocs # {}
    /\ \A doc \in DrainedDocs : doc.data.nonce \in SpoolNonces(spool)

\* ------------------------------------------------------------------ C6
\* C6: a message sent offline to conversation c and then drained with every write
\* accepted appears exactly once in c, in the remote collection and in the list
\* displayed for c, and it has isDelivered = true.
C6_DrainedOnceAndDelivered ==
    (\E d \in DrainIds : drains[d].pc = "done") =>
        \A doc \in DrainedDocs :
            /\ Cardinality(DocsOfNonce(doc.data.nonce)) = 1
            /\ ReadDoc(doc).isDelivered
            /\ CountNonce(ListOf(messagesByConversation, doc.data.cid), doc.data.nonce) = 1
            /\ \A m \in Range(ListOf(messagesByConversation, doc.data.cid)) :
                  m.nonce = doc.data.nonce => m.isDelivered

\* ------------------------------------------------------------------ C7
\* C7: in every reachable state no two entries of messagesByConversation[c] share
\* an identifier, for every conversation c.
C7_UniqueIds ==
    \A c \in Conv : DistinctIds(ListOf(messagesByConversation, c))

\* ------------------------------------------------------------------ C8
\* C8: in every reachable state the list displayed for a conversation is ordered by
\* creation time, strictly ascending.
C8_StrictlyAscending ==
    \A c \in Conv :
        LET list == ListOf(messagesByConversation, c)
        IN  \A i, j \in 1..Len(list) :
                i < j => ResolveTime(list[i]) < ResolveTime(list[j])

\* ------------------------------------------------------------------ C9
\* C9: a snapshot for conversation c replaces the list of c with exactly the
\* snapshot's messages, one per identifier; a snapshot of distinct identifiers is
\* shown whole and in creation-time order (so [A,B] then [A,B,C] gives [A,B,C]);
\* applying the same snapshot again changes nothing, and the lists of the other
\* conversations are untouched.
C9_SnapshotReplacesList ==
    [][\A c \in Conv :
          (OnlyListsChange /\ Snapshot(c)) =>
              LET snap == QueryMessages(c)
                  new  == ListOf(messagesByConversation', c)
              IN  /\ IdsOf(new) = IdsOf(snap)
                  /\ DistinctIds(new)
                  /\ Range(new) \subseteq Range(snap)
                  /\ DistinctIds(snap) =>
                        /\ Len(new) = Len(snap)
                        /\ \A i, j \in 1..Len(new) :
                              i < j => ResolveTime(new[i]) <= ResolveTime(new[j])
                  /\ ApplySnapshot(messagesByConversation', c, snap) = messagesByConversation'
                  /\ \A k \in Conv \ {c} :
                        messagesByConversation'[k] = messagesByConversation[k]
      ]_vars

\* the list of c1 is the snapshot of at least two documents, while c2 holds a
\* message of its own
C9_Witness ==
    /\ "c1" \in subscribed
    /\ Len(QueryMessages("c1")) >= 2
    /\ ListOf(messagesByConversation, "c1") = DedupeById(SortByCreatedAt(QueryMessages("c1")))
    /\ ListOf(messagesByConversation, "c2") # <<>>

\* ------------------------------------------------------------------ C10
\* C10: for an online send, whichever of the local merge of the server-assigned
\* record and the snapshot echoing the same message is applied last, the list of the
\* conversation contains that message exactly once afterwards.
C10_MergeAndEchoOnce ==
    [][/\ \A s \in SendIds :
             (sends[s].pc = "merge" /\ sends'[s].pc = "updateLast") =>
                 CountId(ListOf(messagesByConversation', sends[s].cid),
                         SrvId(sends[s].docId)) = 1
       /\ \A c \in Conv :
             (OnlyListsChange /\ Snapshot(c)) =>
                 \A doc \in remoteMessages :
                     (doc.data.cid = c /\ doc.data.id = NoId) =>
                         CountId(ListOf(messagesByConversation', c), SrvId(doc.docId)) = 1
      ]_vars

\* the merge of an online send was applied and then the snapshot echoing it: the
\* list holds the record as read back, once
C10_Witness ==
    \E s \in SendIds :
        /\ sends[s].pc = "updateLast"
        /\ sends[s].cid \in subscribed
        /\ \E m \in Range(ListOf(messagesByConversation, sends[s].cid)) :
              m.id = SrvId(sends[s].docId) /\ m.createdAt.kind = "ts"
        /\ CountId(ListOf(messagesByConversation, sends[s].cid), SrvId(sends[s].docId)) = 1

\* ------------------------------------------------------------------ C11
\* C11: once the teardown function of a conversation's subscription has been invoked,
\* no event is made for that subscription any more, and an event of it that reaches
\* the client afterwards changes neither messagesByConversation nor the error state.
C11_NoUpdateAfterTeardown ==
    [][\A c \in tornDown :
          /\ inflight'[c] \in {inflight[c], NoEvent}
          /\ (inflight[c] # NoEvent /\ inflight'[c] = NoEvent) =>
                /\ messagesByConversation' = messagesByConversation
                /\ error' = error
      ]_vars

\* a snapshot reached the client after the teardown of its subscription and was
\* discarded: the list of the conversation is not what the collection holds
C11_Witness ==
    \E c \in tornDown :
        /\ c \in discarded
        /\ c \notin subscribed
        /\ QueryMessages(c) # <<>>
        /\ ListOf(messagesByConversation, c) # DedupeById(SortByCreatedAt(QueryMessages(c)))

\* ------------------------------------------------------------------ C12
\* C12: when the remote write of an online sendMessage fails, the call rejects, and
\* the failing step changes neither the in-memory lists nor the persisted spool nor
\* the remote collections (no last-message update); the call is over then (the write
\* is not attempted again), and its message is in no list, in no spool entry and in no
\* remote document, then and later.  (In SpecSpool a call rejects for this reason only.)
C12_FailedOnlineSendLeavesNoTrace ==
    [][\A s \in SendIds :
          /\ (sends[s].pc = "create" /\ sends'[s] # sends[s] /\ remoteMessages' = remoteMessages) =>
                /\ sends'[s].pc = "rejected"
                /\ messagesByConversation' = messagesByConversation
                /\ spool' = spool
                /\ lastMessage' = lastMessage
                /\ updatedAt' = updatedAt
          /\ sends[s].pc = "rejected" =>
                /\ sends'[s] = sends[s]
                /\ DocsOfNonce(s) = {}
                /\ s \notin SpoolNonces(spool)
                /\ \A c \in Conv : CountNonce(ListOf(messagesByConversation, c), s) = 0
      ]_vars

\* an online send has been rejected and left nothing, while another send has
\* written its message
C12_Witness ==
    \E s, r \in SendIds :
        /\ sends[s].pc = "rejected"
        /\ DocsOfNonce(s) = {}
        /\ \A c \in Conv : CountNonce(ListOf(messagesByConversation, c), s) = 0
        /\ sends[r].pc = "done"
        /\ DocsOfNonce(r) # {}

\* ------------------------------------------------------------------ C13
\* C13 (as stated): in every send, online as well as offline, the message is in the
\* in-memory list of its conversation before the remote write is issued: a send that
\* is about to issue its remote write, or has issued it and goes on to the preview
\* update, has its message in the list.
C13_LocalMutationBeforeRemoteWrite ==
    \A s \in SendIds :
        sends[s].pc \in OnlinePc =>
            CountNonce(ListOf(messagesByConversation, sends[s].cid), s) >= 1

\* C13 (amended): an offline send adds its message to the in-memory list in the step
\* of the call itself, before it touches the spool, and issues no remote write.  An
\* online send issues the remote write first: its message is not in the list while
\* the write is outstanding, it is merged into the list once after the write has
\* succeeded, and the preview update is issued only after that merge.
C13_OfflineImmediateOnlineAfterWrite ==
    [][\A s \in SendIds :
          /\ (sends[s].pc = "idle" /\ sends'[s].pc = "getItem") =>
                /\ CountNonce(ListOf(messagesByConversation', sends'[s].cid), s) = 1
                /\ remoteMessages' = remoteMessages
          /\ (sends[s].pc \in {"getItem", "setItem"} /\ sends'[s] # sends[s]) =>
                remoteMessages' = remoteMessages
          /\ sends[s].pc = "create" =>
                CountNonce(ListOf(messagesByConversation, sends[s].cid), s) = 0
          /\ (sends[s].pc = "merge" /\ sends'[s].pc = "updateLast") =>
                /\ DocsOfNonce(s) # {}
                /\ CountNonce(ListOf(messagesByConversation, sends[s].cid), s) = 0
                /\ CountNonce(ListOf(messagesByConversation', sends[s].cid), s) = 1
          /\ sends[s].pc = "updateLast" =>
                CountId(ListOf(messagesByConversation, sends[s].cid),
                        SrvId(sends[s].docId)) = 1
      ]_vars

\* the remote write of an online send has succeeded and its message is not yet in
\* the list, while an offline send that has not yet read the spool has its message
\* in the list
C13_Witness ==
    \E s, r \in SendIds :
        /\ sends[s].pc = "merge"
        /\ DocsOfNonce(s) # {}
        /\ CountNonce(ListOf(messagesByConversation, sends[s].cid), s) = 0
        /\ sends[r].pc = "getItem"
        /\ CountNonce(ListOf(messagesByConversation, sends[r].cid), r) = 1

\* ------------------------------------------------------------------ C14
\* C14: the step that ends the preview update of an online send, failed or not, ends
\* the call as resolved and leaves the in-memory lists alone, the sent message being
\* in the list of its conversation once; lastMessage is only ever written by the
\* preview update of a call in progress, for that call's own message, and a call that
\* has resolved takes no further step (no retry).
C14_PreviewFailureIsNotFatal ==
    [][/\ \A s \in SendIds :
             /\ (sends[s].pc = "updateLast" /\ sends'[s] # sends[s]) =>
                   /\ sends'[s].pc = "done"
                   /\ messagesByConversation' = messagesByConversation
                   /\ CountId(ListOf(messagesByConversation', sends[s].cid),
                              SrvId(sends[s].docId)) = 1
             /\ sends[s].pc = "done" => sends'[s] = sends[s]
       /\ \A c \in Conv :
             lastMessage'[c] # lastMessage[c] =>
                 \E s \in SendIds :
                     /\ sends[s].pc = "updateLast"
                     /\ sends[s].cid = c
                     /\ sends'[s].pc = "done"
                     /\ lastMessage'[c].id = SrvId(sends[s].docId)
      ]_vars

\* every call has returned, none was rejected, and a conversation holds a message
\* sent online whose preview update failed: the conversation has no lastMessage
C14_Witness ==
    /\ \A s \in SendIds : sends[s].pc \in {"idle", "done"}
    /\ \E doc \in remoteMessages :
          /\ doc.data.status = "delivered"
          /\ lastMessage[doc.data.cid] = NoLast
          /\ CountId(ListOf(messagesByConversation, doc.data.cid), SrvId(doc.docId)) = 1

\* ------------------------------------------------------------------ C15
\* C15: no update of the persisted spool is lost: as long as no drain was started,
\* the persisted spool holds the message of every offline sendMessage call that has
\* returned, also when the calls overlapped.
C15_OverlappingOfflineSendsBothSpooled ==
    (\A d \in DrainIds : drains[d].pc = "idle") =>
        \A s \in unsynced.effective :
            sends[s].pc = "done" => s \in SpoolNonces(spool)

\* ------------------------------------------------------------------ C16
\* C16: a failed profile lookup leaves the pass running: it goes on with the next
\* conversation, and neither the pass's updates nor the cache change in that step.
\* A pass ends only after getUser was called for every conversation it set out to
\* fetch; the step that ends it caches every profile the pass resolved; and a
\* conversation whose lookup failed got no entry from this pass: unless another pass
\* has cached it, it is displayed as 'Direct Message' with the default avatar.
C16_FailedLookupDoesNotBlockOthers ==
    [][\A p \in PassIds :
          /\ (passes[p].pc = "run" /\ passes'[p].failed # passes[p].failed) =>
                /\ passes'[p].pc = "run"
                /\ passes'[p].idx = passes[p].idx + 1
                /\ passes'[p].updates = passes[p].updates
                /\ dmProfiles' = dmProfiles
          /\ (passes[p].pc = "run" /\ passes'[p].pc = "done") =>
                /\ passes[p].asked = {passes[p].toFetch[i] : i \in 1..Len(passes[p].toFetch)}
                /\ \A c \in Conv :
                      passes[p].updates[c] # NoProfile =>
                          dmProfiles'[c] = passes[p].updates[c]
                /\ \A c \in passes[p].failed :
                      /\ passes[p].updates[c] = NoProfile
                      /\ dmProfiles[c] = NoProfile =>
                            ChatPreview(c, dmProfiles') =
                                [id |-> c, name |-> "Direct Message", avatar |-> DEFAULT_AVATAR]
      ]_vars

\* a pass has ended in which the lookup for c1 failed and the later lookup for c2
\* succeeded: c2 is cached, c1 is shown with the placeholder name
C16_Witness ==
    \E p \in PassIds :
        /\ passes[p].pc = "done"
        /\ passes[p].toFetch = <<"c1", "c2">>
        /\ passes[p].failed = {"c1"}
        /\ dmProfiles["c2"] = ProfileOf(UserOf("c2"))
        /\ dmProfiles["c1"] = NoProfile
        /\ ChatPreview("c1", dmProfiles).name = "Direct Message"
        /\ ChatPreview("c1", dmProfiles).avatar = DEFAULT_AVATAR

\* ------------------------------------------------------------------ C17
\* C17: no profile lookup is redundant: whenever getUser is called for a direct
\* conversation, the conversation has no cached profile and no other pass has
\* resolved its profile already.
C17_NoRedundantLookup ==
    [][\A p \in PassIds :
          (passes[p].pc = "run" /\ passes'[p].asked # passes[p].asked) =>
              LET c == passes[p].toFetch[passes[p].idx]
              IN  /\ dmProfiles[c] = NoProfile
                  /\ \A q \in PassIds \ {p} : passes[q].updates[c] = NoProfile
      ]_vars

\* ------------------------------------------------------------------ C18
\* the time of the latest activity in conversation c: the later of the conversation
\* document's updatedAt and the server creation times of its messages
Activity(c) ==
    LET times == {updatedAt[c]} \cup {doc.data.createdAt.ms : doc \in {d \in remoteMessages : d.data.cid = c}}
    IN  CHOOSE t \in times : \A u \in times : u <= t

\* every message sent online is covered by a preview update that has succeeded
PreviewsApplied ==
    \A doc \in remoteMessages :
        doc.data.status = "delivered" => updatedAt[doc.data.cid] >= doc.data.createdAt.ms

\* C18: after every conversations snapshot the published list holds one entry per
\* conversation id and is ordered by most recent activity, the conversations into
\* which a message was sent online or drained from the spool included.  (Stated for
\* the snapshots taken while no call is in progress and no preview update has failed.)
C18_ListOrderedByActivity ==
    [][(Quiet /\ PreviewsApplied /\ ConversationsSnapshot) =>
          /\ Len(conversations') = Cardinality(Conv)
          /\ IdsOf(conversations') = Conv
          /\ \A i, j \in 1..Len(conversations') :
                i < j => Activity(conversations'[i].id) >= Activity(conversations'[j].id)
      ]_vars

\* ------------------------------------------------------------------ C19
\* createdAt is a server timestamp or a string that parses
Resolvable(m) == m.createdAt.kind \in {"ts", "iso"}

\* C19: in the list a snapshot leaves, messages with a server timestamp and messages
\* with an ISO string are in the order of their times on one scale, and every message
\* whose creation time cannot be resolved (missing, pending, or a string that does
\* not parse) stands before every message whose creation time can be resolved.
C19_SnapshotSortedOnOneScale ==
    [][\A c \in Conv :
          (OnlyListsChange /\ (Snapshot(c) \/ SnapshotUnordered(c))) =>
              LET list == ListOf(messagesByConversation', c)
              IN  \A i, j \in 1..Len(list) :
                      /\ (i < j /\ Resolvable(list[i]) /\ Resolvable(list[j])) =>
                            list[i].createdAt.ms <= list[j].createdAt.ms
                      /\ (~Resolvable(list[i]) /\ Resolvable(list[j])) => i < j
      ]_vars

\* ------------------------------------------------------------------ C20
\* C20: a failure of the local storage is swallowed by every spool operation: the
\* startup load ends and leaves the lists as an empty spool would, a drain ends as
\* a call that resolved and submits nothing on a failed read, and an offline
\* sendMessage never rejects.
C20_StorageFailureSwallowed ==
    [][/\ (startup.pc = "getItem" /\ startup'.pc = "done") =>
             messagesByConversation' = MergeSpool(<<>>, messagesByConversation)
       /\ \A d \in DrainIds :
             (drains[d].pc = "idle" /\ drains'[d].pc = "failed") =>
                 remoteMessages' = remoteMessages
       /\ \A s \in SendIds :
             (sends[s].pc \in {"getItem", "setItem"} /\ sends'[s] # sends[s]) =>
                 sends'[s].pc # "rejected"
      ]_vars

\* ------------------------------------------------------------------ C21
\* C21: the persisted spool changes only in the setItem step of an offline send,
\* which writes the record the send has read with one entry of its own appended to
\* the list of its conversation and the other lists as they were, and in the
\* removeItem step of a drain, which removes the record.  No other step (online
\* send, loadMessages, message or conversations snapshot, startup load, offline
\* mode toggled) changes it, and a step that toggles the offline mode changes
\* neither the remote messages nor the remote conversations.
C21_SpoolChangesOnlyBySendAndDrain ==
    [][/\ spool' # spool =>
            \/ \E s \in SendIds :
                   /\ sends[s].pc = "setItem" /\ sends[s].offline /\ sends'[s].pc = "done"
                   /\ LET read == ParseSpool(sends[s].raw)
                           new  == SpoolList(ParseSpool(spool'), sends[s].cid)
                      IN  /\ spool'.present
                          /\ Len(new) = Len(SpoolList(read, sends[s].cid)) + 1
                          /\ SubSeq(new, 1, Len(new) - 1) = SpoolList(read, sends[s].cid)
                          /\ new[Len(new)].nonce = s
                          /\ \A k \in Conv \ {sends[s].cid} :
                                 SpoolList(ParseSpool(spool'), k) = SpoolList(read, k)
            \/ \E d \in DrainIds :
                   /\ drains[d].pc = "submit" /\ drains'[d].pc = "done"
                   /\ spool' = Absent
       /\ isOfflineMode' # isOfflineMode =>
            /\ spool' = spool
            /\ remoteMessages' = remoteMessages
            /\ lastMessage' = lastMessage
            /\ updatedAt' = updatedAt
      ]_vars

\* an offline send has written the spool, the offline mode was switched off again,
\* and an online send, a load, a message snapshot, a conversations snapshot and the
\* startup load have run since the spool was written
C21_Witness ==
    /\ ~isOfflineMode
    /\ startup.pc = "done"
    /\ SpoolNonces(spool) \cap SendIds # {}
    /\ \E s \in SendIds : DocsOfNonce(s) # {} /\ sends[s].pc = "done"
    /\ \E l \in LoadIds : loads[l].pc = "done"
    /\ \E c \in subscribed :
           /\ messagesByConversation[c].has
           /\ \E m \in Range(ListOf(messagesByConversation, c)) : m.createdAt.kind = "ts"
    /\ conversations # <<>>

\* ------------------------------------------------------------------ C22
\* C22: whenever a step writes the lastMessage of a conversation c, the identifier
\* it writes is that of a document that is in the remote messages collection, with
\* conversation id c, in the state the write is made in.
C22_LastMessageRefersToStoredMessage ==
    [][\A c \in Conv :
          lastMessage'[c] # lastMessage[c] =>
              \E doc \in remoteMessages :
                  /\ doc.data.cid = c
                  /\ ReadDoc(doc).id = lastMessage'[c].id
      ]_vars

\* a send has written the lastMessage of a conversation that holds the messages of
\* two sends, and the other send is still before its own preview update
C22_Witness ==
    \E c \in Conv, s \in SendIds :
        /\ lastMessage[c] # NoLast
        /\ sends[s].pc = "updateLast" /\ sends[s].cid = c
        /\ SrvId(sends[s].docId) # lastMessage[c].id
        /\ Cardinality({doc \in remoteMessages : doc.data.cid = c}) = 2

\* ------------------------------------------------------------------ C23
\* C23: the entry an offline send has appended to the in-memory list and the entry
\* the same send has appended to the persisted spool carry the same 'local-'
\* identifier, and both are marked not delivered (isDelivered = false, status 'sent').
C23_OneLocalIdentifier ==
    \A c \in Conv :
        \A m \in Range(ListOf(messagesByConversation, c)),
           e \in Range(SpoolList(ParseSpool(spool), c)) :
            (m.nonce = e.nonce /\ m.nonce \in SendIds) =>
                /\ m.id.kind = "local" /\ m.id = e.id
                /\ ~m.isDelivered /\ m.status = "sent"
                /\ ~e.isDelivered /\ e.status = "sent"

\* ------------------------------------------------------------------ C24
\* C24: a message that is pending in the persisted spool and held in the in-memory
\* list of its conversation is still in that list after any step that applies a
\* loadMessages result or a subscription snapshot.
C24_PendingMessageStaysInList ==
    [][(\/ OnlyListsChange
        \/ \E l \in LoadIds : loads[l].pc = "apply" /\ loads'[l].pc = "done") =>
          \A c \in Conv :
              \A e \in Range(SpoolList(ParseSpool(spool), c)) :
                  (/\ e.nonce \in SendIds
                   /\ spool' = spool
                   /\ CountNonce(ListOf(messagesByConversation, c), e.nonce) >= 1) =>
                      CountNonce(ListOf(messagesByConversation', c), e.nonce) >= 1
      ]_vars

\* ------------------------------------------------------------------ C25
\* C25: in every reachable state at most one join request with status 'pending'
\* exists for the community and the user, also after createJoinRequest calls that
\* overlapped.
C25_AtMostOnePendingRequest ==
    Cardinality(PendingRequests) <= 1

\* ------------------------------------------------------------------ C26
\* C26: no spooled message is lost: in every reachable state the message of every
\* sendMessage call that has returned is in the persisted spool or in the remote
\* messages collection, also when the call ran while a drain was in progress.
C26_NoSpooledMessageLost ==
    \A s \in SendIds :
        sends[s].pc = "done" => (s \in SpoolNonces(spool) \/ DocsOfNonce(s) # {})

\* ------------------------------------------------------------------ C27
\* C27: in every reachable state the remote messages collection holds at most one
\* document for each spooled message, whatever sequence of drains has run (a drain
\* run again after a drain that stopped at a failed submission included).
C27_SpooledMessageWrittenAtMostOnce ==
    \A n \in {0} \cup SendIds : Cardinality(DocsOfNonce(n)) <= 1

\* ------------------------------------------------------------------ C28
\* C28: with a listener on the conversation, a loadMessages result that is applied
\* when the list already equals the content of the latest snapshot (the content of
\* the collection as it is now) leaves the list as it is: the late result of the
\* one-shot load never overwrites the newer snapshot.
C28_LateLoadKeepsNewerSnapshot ==
    [][\A l \in LoadIds :
          (/\ loads[l].pc = "apply" /\ loads'[l].pc = "done"
           /\ loads[l].cid \in subscribed
           /\ messagesByConversation[loads[l].cid].has
           /\ ListOf(messagesByConversation, loads[l].cid) =
                  DedupeById(SortByCreatedAt(QueryMessages(loads[l].cid)))) =>
              messagesByConversation'[loads[l].cid] = messagesByConversation[loads[l].cid]
      ]_vars

\* ------------------------------------------------------------------ C29
\* C29: when no send is in progress and every send has made its message write and
\* its last-message update, the lastMessage of each conversation that has messages
\* refers to a message of the conversation whose creation time is the greatest.
C29_LastMessageIsNewest ==
    (\A s \in SendIds : sends[s].pc \in {"idle", "done"}) =>
        \A c \in Conv :
            LET docs == {doc \in remoteMessages : doc.data.cid = c}
            IN  docs # {} =>
                    \E doc \in docs :
                        /\ ReadDoc(doc).id = lastMessage[c].id
                        /\ \A other \in docs :
                               ResolveTime(other.data) <= ResolveTime(doc.data)

\* ------------------------------------------------------------------ C30
\* C30: when the callback runs of all auth-state events have returned and the last
\* event was a sign-out, user is null, isAuthenticated is false and the cached
\* 'user' record is removed.
C30_SignedOutAfterLastSignOut ==
    (/\ LastEvent = NoUser
     /\ \A e \in 1..Len(authEvents) : handlers[e].pc = "done") =>
        /\ user = NoUser
        /\ ~isAuthenticated
        /\ userRecord = NoUser

====
